---- MODULE Spec2Model ----
(***************************************************************************)
(* The two TradingBot scripts: the logging-only bot (trading-script.py)    *)
(* and the bot with the DiscordNotifier (trading-script (1).py).           *)
(*                                                                         *)
(* One bot runs one operation at a time.  An operation is a sequence of    *)
(* steps, one per external call (brokerage REST call or webhook send);     *)
(* each step takes the call's outcome from the environment and runs the    *)
(* local code that follows, up to the next external call.  pc is the       *)
(* position of the operation in progress.                                  *)
(*                                                                         *)
(* Money amounts are integers; quotients are exact rationals [num, den]    *)
(* in lowest terms, with den = 0 standing for the inf/nan of a division    *)
(* that did not raise.                                                     *)
(***************************************************************************)
EXTENDS Integers, Sequences, FiniteSets

VARIABLES
    variant,        \* "plain" (trading-script.py) or "notifier" (trading-script (1).py)
    pc,             \* position of the operation in progress, "idle" between operations
    op,             \* the operation in progress, or the last one when idle
    args,           \* execute_trade's arguments (symbol, qty, side, price)
    account,        \* send_daily_summary's local `account`
    exc,            \* the exception raised inside the operation's try block ("" if none)
    daily_trades,   \* self.daily_trades
    accepted,       \* history: the orders submit_order accepted, in submission order
    trades0,        \* history: daily_trades when the operation was called
    calls,          \* history: the external calls of the operation, in order
    log,            \* the lines the operation wrote to the log file
    outcome         \* how the operation ended: returned a value or raised

vars == <<variant, pc, op, args, account, exc, daily_trades, accepted, trades0,
          calls, log, outcome>>

(***************************************************************************)
(* Bounds and input domains.                                               *)
(***************************************************************************)
MaxTrades == 3

Symbols == {"AAPL"}
Quantities == {10}
Sides == {"buy", "Sell"}
Prices == {50, 20000}
Equities == {9000, 10500}
LastEquities == {0, 10000}

Orders == [symbol : Symbols, qty : Quantities, side : Sides, price : Prices]
Accounts == [equity : Equities, last_equity : LastEquities]

NoArgs == [symbol |-> "", qty |-> 0, side |-> "", price |-> 0]
NoAccount == [equity |-> 0, last_equity |-> 0]

(***************************************************************************)
(* Embed colours.                                                          *)
(***************************************************************************)
GREEN == 65280
RED == 16711680

(***************************************************************************)
(* Float arithmetic.                                                       *)
(***************************************************************************)
Abs(n) == IF n < 0 THEN -n ELSE n

Sgn(n) == IF n < 0 THEN -1 ELSE IF n = 0 THEN 0 ELSE 1

RECURSIVE GCD(_, _)
GCD(a, b) == IF b = 0 THEN a ELSE GCD(b, a % b)

\* n/d in lowest terms with a positive denominator; n/0 is inf or nan.
Rat(n, d) ==
    IF d = 0 THEN [num |-> Sgn(n), den |-> 0]
    ELSE LET g == GCD(Abs(n), Abs(d))
             s == Sgn(d)
         IN  [num |-> (s * n) \div g, den |-> (s * d) \div g]

\* Mutant: a division that never raises.
DivisionUnguarded(a, b) == FALSE

\* Python's a / b on floats raises ZeroDivisionError when b = 0.
DivisionRaises(a, b) == b = 0

TrueDiv(a, b) == Rat(a, b)

Times(r, k) == Rat(r.num * k, r.den)

\* str.upper() on the side strings.
Upper(s) ==
    CASE s = "buy" -> "BUY"
      [] s = "Buy" -> "BUY"
      [] s = "BUY" -> "BUY"
      [] s = "sell" -> "SELL"
      [] s = "Sell" -> "SELL"
      [] s = "SELL" -> "SELL"
      [] OTHER -> s

(***************************************************************************)
(* Outcomes and call records.                                              *)
(***************************************************************************)
Pending == [status |-> "pending", error |-> "", value |-> <<>>]
Returned(v) == [status |-> "returned", error |-> "", value |-> v]
Raised(e) == [status |-> "raised", error |-> e, value |-> <<>>]

ApiCall(name, ok, data) == [call |-> name, ok |-> ok, data |-> data]

Nothing == [none |-> TRUE]

(***************************************************************************)
(* TradeRecord and DailySummary.                                           *)
(***************************************************************************)
\* Mutant: the total forgets the quantity.
TradeInfo_UnitTotal(symbol, qty, side, price) ==
    [action |-> Upper(side),
     symbol |-> symbol,
     quantity |-> qty,
     price |-> price,
     total |-> price]

\* The trade_info dict execute_trade builds from its arguments.
TradeInfo(symbol, qty, side, price) ==
    [action |-> Upper(side),
     symbol |-> symbol,
     quantity |-> qty,
     price |-> price,
     total |-> price * qty]

\* Mutant: the SELL comparison is turned round.
IsWinning_SellBelow(trade, equity) ==
    \/ trade.action = "BUY" /\ trade.price < equity
    \/ trade.action = "SELL" /\ trade.price < equity

\* The condition of the winning_trades generator.
IsWinning(trade, equity) ==
    \/ trade.action = "BUY" /\ trade.price < equity
    \/ trade.action = "SELL" /\ trade.price > equity

RECURSIVE WinningTrades(_, _)
WinningTrades(trades, equity) ==
    IF trades = <<>> THEN 0
    ELSE (IF IsWinning(Head(trades), equity) THEN 1 ELSE 0)
         + WinningTrades(Tail(trades), equity)

WinRate(trades, equity) ==
    LET total_trades == Len(trades)
        winning_trades == WinningTrades(trades, equity)
    IN  IF total_trades > 0
        THEN Times(TrueDiv(winning_trades, total_trades), 100)
        ELSE Rat(0, 1)

\* Mutant: the percentage is left as a fraction.
DailySummary_Fraction(acct, trades) ==
    LET pnl == acct.equity - acct.last_equity
    IN  [total_trades |-> Len(trades),
         pnl |-> pnl,
         pnl_percentage |-> TrueDiv(pnl, acct.last_equity),
         balance |-> acct.equity,
         win_rate |-> WinRate(trades, acct.equity)]

\* The summary dict of send_daily_summary (its date is not modelled).
DailySummary(acct, trades) ==
    LET pnl == acct.equity - acct.last_equity
    IN  [total_trades |-> Len(trades),
         pnl |-> pnl,
         pnl_percentage |-> Times(TrueDiv(pnl, acct.last_equity), 100),
         balance |-> acct.equity,
         win_rate |-> WinRate(trades, acct.equity)]

(***************************************************************************)
(* DiscordNotifier: each method formats one embed and sends it with one    *)
(* webhook call.  An embed is modelled by the data its template carries    *)
(* and its colour (its timestamp is not modelled).                         *)
(***************************************************************************)
send_message(content, color) == [content |-> content, color |-> color]

send_trade_alert(info) ==
    send_message([title |-> "Trade Alert",
                  emoji |-> IF info.action = "BUY" THEN "green" ELSE "red",
                  trade |-> info],
                 IF info.action = "BUY" THEN GREEN ELSE RED)

send_daily_summary(summary) ==
    send_message([title |-> "Daily Trading Summary", summary |-> summary],
                 IF summary.pnl >= 0 THEN GREEN ELSE RED)

send_error_alert(error_msg) ==
    send_message([title |-> "Error Alert", error |-> error_msg], RED)

MarketClosedMessage == send_message([title |-> "Market is closed"], GREEN)

SessionStartedMessage(acct) ==
    send_message([title |-> "Trading session started", balance |-> acct.equity], GREEN)

\* f"{prefix}: {str(e)}"
ErrorText(prefix, e) == [prefix |-> prefix, error |-> e]

Webhook(embed, ok) == ApiCall("webhook.send", ok, embed)

LogLine(level, text) == [level |-> level, text |-> text]

(***************************************************************************)
(* Initial state: a bot just constructed.                                  *)
(***************************************************************************)
Init ==
    /\ variant \in {"plain", "notifier"}
    /\ pc = "idle"
    /\ op = "__init__"
    /\ args = NoArgs
    /\ account = NoAccount
    /\ exc = ""
    /\ daily_trades = <<>>
    /\ accepted = <<>>
    /\ trades0 = <<>>
    /\ calls = <<>>
    /\ log = <<>>
    /\ outcome = Returned(<<>>)

\* Entering an operation: fresh locals, fresh history of the operation.
Begin(name, a, first) ==
    /\ pc = "idle"
    /\ op' = name
    /\ args' = a
    /\ pc' = first
    /\ account' = NoAccount
    /\ exc' = ""
    /\ trades0' = daily_trades
    /\ calls' = <<>>
    /\ log' = <<>>
    /\ outcome' = Pending
    /\ UNCHANGED <<variant, daily_trades, accepted>>

\* An exception leaving the current statement: run and execute_trade catch it,
\* send_daily_summary and check_market_hours called on their own do not.
Raise(e) ==
    /\ exc' = e
    /\ IF op = "run" THEN pc' = "run_except" /\ outcome' = outcome
       ELSE IF op = "execute_trade" THEN pc' = "et_except" /\ outcome' = outcome
       ELSE pc' = "idle" /\ outcome' = Raised(e)

Return(v) ==
    /\ pc' = "idle"
    /\ outcome' = Returned(v)
    /\ exc' = exc

(***************************************************************************)
(* check_market_hours (both scripts).                                      *)
(***************************************************************************)
Call_check_market_hours ==
    /\ variant \in {"plain", "notifier"}
    /\ Begin("check_market_hours", NoArgs, "cm_clock")

CM_Clock ==
    /\ pc = "cm_clock"
    /\ \/ \E is_open \in BOOLEAN :
            /\ calls' = Append(calls, ApiCall("get_clock", TRUE, [is_open |-> is_open]))
            /\ Return(<<is_open>>)
       \/ /\ calls' = Append(calls, ApiCall("get_clock", FALSE, Nothing))
          /\ Raise("ClockError")
    /\ UNCHANGED <<variant, op, args, account, daily_trades, accepted, trades0, log>>

(***************************************************************************)
(* execute_trade (notifier script).                                        *)
(***************************************************************************)
Call_execute_trade(o) ==
    /\ variant = "notifier"
    /\ Len(accepted) < MaxTrades
    /\ Begin("execute_trade", o, "et_submit")

trade_info == TradeInfo(args.symbol, args.qty, args.side, args.price)

SubmitOrder(o) ==
    [symbol |-> o.symbol, qty |-> o.qty, side |-> o.side,
     type |-> "market", time_in_force |-> "gtc"]

ET_Submit ==
    /\ pc = "et_submit"
    /\ \/ /\ calls' = Append(calls, ApiCall("submit_order", TRUE, SubmitOrder(args)))
          /\ accepted' = Append(accepted, args)
          /\ pc' = "et_alert"
          /\ UNCHANGED <<exc, outcome>>
       \/ /\ calls' = Append(calls, ApiCall("submit_order", FALSE, SubmitOrder(args)))
          /\ accepted' = accepted
          /\ Raise("OrderError")
    /\ UNCHANGED <<variant, op, args, account, daily_trades, trades0, log>>

\* await send_trade_alert; then append and return.
ET_Alert ==
    /\ pc = "et_alert"
    /\ \/ /\ calls' = Append(calls, Webhook(send_trade_alert(trade_info), TRUE))
          /\ daily_trades' = Append(daily_trades, trade_info)
          /\ Return(<<trade_info>>)
       \/ /\ calls' = Append(calls, Webhook(send_trade_alert(trade_info), FALSE))
          /\ daily_trades' = daily_trades
          /\ Raise("WebhookError")
    /\ UNCHANGED <<variant, op, args, account, accepted, trades0, log>>

\* Mutant: the handler alerts but swallows the exception.
ET_Except_Swallow ==
    /\ pc = "et_except"
    /\ \E ok \in BOOLEAN :
          /\ calls' = Append(calls,
                 Webhook(send_error_alert(ErrorText("Trade execution failed", exc)), ok))
          /\ outcome' = IF ok THEN Returned(<<>>) ELSE Raised("WebhookError")
    /\ pc' = "idle"
    /\ UNCHANGED <<variant, op, args, account, exc, daily_trades, accepted, trades0, log>>

\* except Exception as e: await send_error_alert(...); raise
ET_Except ==
    /\ pc = "et_except"
    /\ \E ok \in BOOLEAN :
          /\ calls' = Append(calls,
                 Webhook(send_error_alert(ErrorText("Trade execution failed", exc)), ok))
          /\ outcome' = IF ok THEN Raised(exc) ELSE Raised("WebhookError")
    /\ pc' = "idle"
    /\ UNCHANGED <<variant, op, args, account, exc, daily_trades, accepted, trades0, log>>

(***************************************************************************)
(* send_daily_summary (notifier script), called on its own or by run.      *)
(***************************************************************************)
Call_send_daily_summary ==
    /\ variant = "notifier"
    /\ Begin("send_daily_summary", NoArgs, "ds_account")

\* account = get_account(); the statistics are computed up to the division.
DS_Account ==
    /\ pc = "ds_account"
    /\ \/ \E a \in Accounts :
            /\ calls' = Append(calls, ApiCall("get_account", TRUE, a))
            /\ account' = a
            /\ IF DivisionRaises(a.equity - a.last_equity, a.last_equity)
               THEN Raise("ZeroDivisionError")
               ELSE pc' = "ds_send" /\ UNCHANGED <<exc, outcome>>
       \/ /\ calls' = Append(calls, ApiCall("get_account", FALSE, Nothing))
          /\ account' = account
          /\ Raise("AccountError")
    /\ UNCHANGED <<variant, op, args, daily_trades, accepted, trades0, log>>

\* Mutant: the ledger is reset once the summary is out.
DS_Send_ClearsTrades ==
    /\ pc = "ds_send"
    /\ LET summary == DailySummary(account, daily_trades)
       IN  \/ /\ calls' = Append(calls, Webhook(send_daily_summary(summary), TRUE))
              /\ daily_trades' = <<>>
              /\ Return(<<>>)
           \/ /\ calls' = Append(calls, Webhook(send_daily_summary(summary), FALSE))
              /\ daily_trades' = daily_trades
              /\ Raise("WebhookError")
    /\ UNCHANGED <<variant, op, args, account, accepted, trades0, log>>

\* The rest of the statistics, then await self.discord.send_daily_summary(summary).
DS_Send ==
    /\ pc = "ds_send"
    /\ LET summary == DailySummary(account, daily_trades)
       IN  \/ /\ calls' = Append(calls, Webhook(send_daily_summary(summary), TRUE))
              /\ Return(<<>>)
           \/ /\ calls' = Append(calls, Webhook(send_daily_summary(summary), FALSE))
              /\ Raise("WebhookError")
    /\ UNCHANGED <<variant, op, args, account, daily_trades, accepted, trades0, log>>

(***************************************************************************)
(* run (notifier script).                                                  *)
(***************************************************************************)
Call_run ==
    /\ variant \in {"plain", "notifier"}
    /\ Begin("run", NoArgs, IF variant = "plain" THEN "p_clock" ELSE "run_clock")

\* if not self.check_market_hours()
Run_Clock ==
    /\ pc = "run_clock"
    /\ \/ \E is_open \in BOOLEAN :
            /\ calls' = Append(calls, ApiCall("get_clock", TRUE, [is_open |-> is_open]))
            /\ pc' = IF is_open THEN "run_account" ELSE "run_closed"
            /\ UNCHANGED <<exc, outcome>>
       \/ /\ calls' = Append(calls, ApiCall("get_clock", FALSE, Nothing))
          /\ Raise("ClockError")
    /\ UNCHANGED <<variant, op, args, account, daily_trades, accepted, trades0, log>>

\* Mutant: the return after the notification is missing.
Run_Closed_NoReturn ==
    /\ pc = "run_closed"
    /\ \/ /\ calls' = Append(calls, Webhook(MarketClosedMessage, TRUE))
          /\ pc' = "run_account"
          /\ UNCHANGED <<exc, outcome>>
       \/ /\ calls' = Append(calls, Webhook(MarketClosedMessage, FALSE))
          /\ Raise("WebhookError")
    /\ UNCHANGED <<variant, op, args, account, daily_trades, accepted, trades0, log>>

\* await send_message("Market is closed"); return
Run_Closed ==
    /\ pc = "run_closed"
    /\ \/ /\ calls' = Append(calls, Webhook(MarketClosedMessage, TRUE))
          /\ Return(<<>>)
       \/ /\ calls' = Append(calls, Webhook(MarketClosedMessage, FALSE))
          /\ Raise("WebhookError")
    /\ UNCHANGED <<variant, op, args, account, daily_trades, accepted, trades0, log>>

\* account = self.api.get_account()   (run's own local, read back from the call history)
Run_Account ==
    /\ pc = "run_account"
    /\ \/ \E a \in Accounts :
            /\ calls' = Append(calls, ApiCall("get_account", TRUE, a))
            /\ pc' = "run_session"
            /\ UNCHANGED <<exc, outcome>>
       \/ /\ calls' = Append(calls, ApiCall("get_account", FALSE, Nothing))
          /\ Raise("AccountError")
    /\ UNCHANGED <<variant, op, args, account, daily_trades, accepted, trades0, log>>

\* Mutant: run ends after the session message, without the summary.
Run_Session_NoSummary ==
    /\ pc = "run_session"
    /\ LET a == calls[Len(calls)].data
       IN  \/ /\ calls' = Append(calls, Webhook(SessionStartedMessage(a), TRUE))
              /\ Return(<<>>)
           \/ /\ calls' = Append(calls, Webhook(SessionStartedMessage(a), FALSE))
              /\ Raise("WebhookError")
    /\ UNCHANGED <<variant, op, args, account, daily_trades, accepted, trades0, log>>

\* await send_message("Trading session started ..."); the strategy placeholder;
\* then send_daily_summary is entered.
Run_Session ==
    /\ pc = "run_session"
    /\ LET a == calls[Len(calls)].data
       IN  \/ /\ calls' = Append(calls, Webhook(SessionStartedMessage(a), TRUE))
              /\ pc' = "ds_account"
              /\ UNCHANGED <<exc, outcome>>
           \/ /\ calls' = Append(calls, Webhook(SessionStartedMessage(a), FALSE))
              /\ Raise("WebhookError")
    /\ UNCHANGED <<variant, op, args, account, daily_trades, accepted, trades0, log>>

\* except Exception as e: await send_error_alert(...); logging.error(...); raise
Run_Except ==
    /\ pc = "run_except"
    /\ LET text == ErrorText("Error in trading bot", exc)
       IN  \/ /\ calls' = Append(calls, Webhook(send_error_alert(text), TRUE))
              /\ log' = Append(log, LogLine("ERROR", text))
              /\ outcome' = Raised(exc)
           \/ /\ calls' = Append(calls, Webhook(send_error_alert(text), FALSE))
              /\ log' = log
              /\ outcome' = Raised("WebhookError")
    /\ pc' = "idle"
    /\ UNCHANGED <<variant, op, args, account, exc, daily_trades, accepted, trades0>>

(***************************************************************************)
(* run (plain script): the same cycle with the log as its only output.     *)
(***************************************************************************)
\* except Exception as e: logging.error(...); raise
P_Except(e) ==
    /\ log' = Append(log, LogLine("ERROR", ErrorText("Error in trading bot", e)))
    /\ exc' = e
    /\ outcome' = Raised(e)
    /\ pc' = "idle"

P_Clock ==
    /\ pc = "p_clock"
    /\ \/ /\ calls' = Append(calls, ApiCall("get_clock", TRUE, [is_open |-> FALSE]))
          /\ log' = Append(log, LogLine("INFO", [title |-> "Market is closed"]))
          /\ Return(<<>>)
       \/ /\ calls' = Append(calls, ApiCall("get_clock", TRUE, [is_open |-> TRUE]))
          /\ log' = log
          /\ pc' = "p_account"
          /\ UNCHANGED <<exc, outcome>>
       \/ /\ calls' = Append(calls, ApiCall("get_clock", FALSE, Nothing))
          /\ P_Except("ClockError")
    /\ UNCHANGED <<variant, op, args, account, daily_trades, accepted, trades0>>

P_Account ==
    /\ pc = "p_account"
    /\ \/ \E a \in Accounts :
            /\ calls' = Append(calls, ApiCall("get_account", TRUE, a))
            /\ log' = Append(log, LogLine("INFO",
                         [title |-> "Current balance", balance |-> a.equity]))
            /\ Return(<<>>)
       \/ /\ calls' = Append(calls, ApiCall("get_account", FALSE, Nothing))
          /\ P_Except("AccountError")
    /\ UNCHANGED <<variant, op, args, account, daily_trades, accepted, trades0>>

(***************************************************************************)
(* The bot.                                                                *)
(***************************************************************************)
Next ==
    \/ Call_check_market_hours
    \/ CM_Clock
    \/ \E o \in Orders : Call_execute_trade(o)
    \/ ET_Submit
    \/ ET_Alert
    \/ ET_Except
    \/ Call_send_daily_summary
    \/ DS_Account
    \/ DS_Send
    \/ Call_run
    \/ Run_Clock
    \/ Run_Closed
    \/ Run_Account
    \/ Run_Session
    \/ Run_Except
    \/ P_Clock
    \/ P_Account

Spec == Init /\ [][Next]_vars

(***************************************************************************)
(* Vocabulary of the properties.                                           *)
(***************************************************************************)
Done(name) == pc = "idle" /\ op = name

CallsTo(name) == {i \in 1..Len(calls) : calls[i].call = name}

\* The webhook sends of the operation whose message has the given title.
Sends(title) ==
    {i \in 1..Len(calls) :
        calls[i].call = "webhook.send" /\ calls[i].data.content.title = title}

Delivered(title) == {i \in Sends(title) : calls[i].ok}

LogLines(level, title) ==
    {i \in 1..Len(log) : log[i].level = level /\ log[i].text = title}

AllCallsOk == \A i \in 1..Len(calls) : calls[i].ok

\* The clock query of run answered, and answered is_open.
ClockSaid(is_open) ==
    /\ op = "run"
    /\ Len(calls) >= 1
    /\ calls[1].ok
    /\ calls[1].data.is_open = is_open

SubmitFailed == op = "execute_trade" /\ Len(calls) >= 1 /\ ~calls[1].ok

SubmitAccepted == op = "execute_trade" /\ Len(calls) >= 1 /\ calls[1].ok

TypeOK ==
    /\ variant \in {"plain", "notifier"}
    /\ pc \in {"idle", "cm_clock", "et_submit", "et_alert", "et_except", "ds_account",
               "ds_send", "run_clock", "run_closed", "run_account", "run_session",
               "run_except", "p_clock", "p_account"}
    /\ op \in {"__init__", "check_market_hours", "execute_trade",
               "send_daily_summary", "run"}
    /\ args \in Orders \cup {NoArgs}
    /\ account \in Accounts \cup {NoAccount}
    /\ exc \in {"", "ClockError", "AccountError", "OrderError", "WebhookError",
                "ZeroDivisionError"}
    /\ outcome.status \in {"pending", "returned", "raised"}
    /\ Len(accepted) <= MaxTrades
    /\ Len(daily_trades) <= Len(accepted)
    /\ (pc = "idle") = (outcome.status # "pending")

(***************************************************************************)
(* C1. When submit_order fails, execute_trade sends exactly one error      *)
(* alert (carrying the order error), sends no trade alert, leaves          *)
(* daily_trades as it was when called, and ends by raising.                *)
(***************************************************************************)
C1_SubmitFailureAlertsOnceAndPropagates ==
    SubmitFailed =>
        /\ daily_trades = trades0
        /\ Sends("Trade Alert") = {}
        /\ exc = "OrderError"
        /\ pc \in {"et_except", "idle"}
        /\ pc = "idle" =>
              /\ Cardinality(Sends("Error Alert")) = 1
              /\ Len(calls) = 2
              /\ calls[2].data.content.error
                    = ErrorText("Trade execution failed", "OrderError")
              /\ outcome.status = "raised"
              /\ calls[2].ok => outcome.error = "OrderError"

C1_Witness ==
    /\ SubmitFailed
    /\ pc = "idle"
    /\ trades0 # <<>>
    /\ calls[2].ok

(***************************************************************************)
(* C2 as stated. When the clock reports the market closed, run sends       *)
(* exactly one "Market is closed" notification and then returns, with no   *)
(* get_account, submit_order, session-start or daily-summary call.         *)
(***************************************************************************)
MarketClosedNotices ==
    IF variant = "plain"
    THEN Cardinality(LogLines("INFO", [title |-> "Market is closed"]))
    ELSE Cardinality(Sends("Market is closed"))

NoAccountTradeOrSummaryCalls ==
    /\ CallsTo("get_account") = {}
    /\ CallsTo("submit_order") = {}
    /\ Sends("Trading session started") = {}
    /\ Sends("Daily Trading Summary") = {}
    /\ Sends("Trade Alert") = {}
    /\ daily_trades = trades0

C2_ClosedRunNotifiesOnceAndReturns ==
    (Done("run") /\ ClockSaid(FALSE)) =>
        /\ MarketClosedNotices = 1
        /\ NoAccountTradeOrSummaryCalls
        /\ outcome.status = "returned"

(***************************************************************************)
(* C2 amended. When the clock reports the market closed, run makes exactly *)
(* one "Market is closed" notification and no get_account, submit_order,   *)
(* session-start or daily-summary call; it returns when that notification  *)
(* is delivered, and when its send fails run goes through its error        *)
(* handler and raises.                                                     *)
(***************************************************************************)
C2_ClosedRunNotifiesOnce ==
    ClockSaid(FALSE) =>
        /\ NoAccountTradeOrSummaryCalls
        /\ variant = "plain" =>
              /\ pc = "idle"
              /\ Len(calls) = 1
              /\ MarketClosedNotices = 1
              /\ outcome.status = "returned"
        /\ variant = "notifier" =>
              /\ pc \in {"run_closed", "run_except", "idle"}
              /\ pc = "run_closed" => Len(calls) = 1
              /\ pc # "run_closed" =>
                    /\ MarketClosedNotices = 1
                    /\ calls[2].data = MarketClosedMessage
              /\ pc = "idle" =>
                    /\ (outcome.status = "returned") = (Delivered("Market is closed") # {})
                    /\ (outcome.status = "raised") = (Delivered("Market is closed") = {})
                    /\ outcome.status = "returned" => Len(calls) = 2
                    /\ outcome.status = "raised" => Cardinality(Sends("Error Alert")) = 1

C2_Witness ==
    /\ Done("run")
    /\ variant = "notifier"
    /\ ClockSaid(FALSE)
    /\ outcome.status = "returned"
    /\ daily_trades # <<>>

C2_WitnessPlain ==
    /\ Done("run")
    /\ variant = "plain"
    /\ ClockSaid(FALSE)

(***************************************************************************)
(* C3. Whenever run fails, an error alert with the error's text has        *)
(* reached the channel, the log holds the error's text, and the error      *)
(* that leaves run is the one that was raised inside it.                   *)
(***************************************************************************)
RunErrorText == ErrorText("Error in trading bot", exc)

C3_FailedRunAlertsLogsAndReraises ==
    (Done("run") /\ variant = "notifier" /\ outcome.status = "raised") =>
        /\ \E i \in Delivered("Error Alert") : calls[i].data.content.error = RunErrorText
        /\ LogLines("ERROR", RunErrorText) # {}
        /\ outcome.error = exc

(***************************************************************************)
(* C4. Between operations daily_trades holds exactly one TradeRecord per   *)
(* order the brokerage accepted, in submission order, whatever happened    *)
(* to the notification.                                                    *)
(***************************************************************************)
RecordOf(o) == [action |-> IF o.side \in {"buy", "Buy", "BUY"} THEN "BUY" ELSE "SELL",
                symbol |-> o.symbol,
                quantity |-> o.qty,
                price |-> o.price,
                total |-> o.price * o.qty]

C4_OneRecordPerAcceptedOrder ==
    (pc = "idle" /\ variant = "notifier") =>
        /\ Len(daily_trades) = Len(accepted)
        /\ \A i \in 1..Len(accepted) : daily_trades[i] = RecordOf(accepted[i])

(***************************************************************************)
(* C5. Every record in daily_trades, and every record execute_trade        *)
(* returns, has total = price * quantity, with the caller's price and      *)
(* quantity and the upper-cased side as its action.                        *)
(***************************************************************************)
C5_TotalIsPriceTimesQuantity ==
    /\ \A i \in 1..Len(daily_trades) :
          LET r == daily_trades[i]
          IN  /\ r.total = r.price * r.quantity
              /\ r.action \in {"BUY", "SELL"}
              /\ \E j \in 1..Len(accepted) : r = RecordOf(accepted[j])
    /\ (Done("execute_trade") /\ outcome.status = "returned") =>
          LET r == outcome.value[1]
          IN  /\ r.price = args.price
              /\ r.quantity = args.qty
              /\ r.symbol = args.symbol
              /\ r.total = args.price * args.qty
              /\ r.action = (IF args.side = "buy" THEN "BUY" ELSE "SELL")
              /\ daily_trades = Append(trades0, r)

C5_Witness ==
    /\ Done("execute_trade")
    /\ outcome.status = "returned"
    /\ args.side = "Sell"
    /\ outcome.value[1].total = 200000
    /\ Len(daily_trades) = 2

(***************************************************************************)
(* C6. When the fetched account has last_equity = 0, send_daily_summary    *)
(* raises and sends no daily summary; no summary delivered to the channel  *)
(* carries an undefined or infinite pnl_percentage.                        *)
(***************************************************************************)
SummaryAccountFetched == account \in Accounts

C6_ZeroLastEquityRaisesWithoutSummary ==
    /\ (SummaryAccountFetched /\ account.last_equity = 0) =>
          /\ Sends("Daily Trading Summary") = {}
          /\ pc \in {"run_except", "idle"}
          /\ exc = "ZeroDivisionError"
          /\ pc = "idle" => outcome.status = "raised"
          /\ Done("send_daily_summary") => outcome.error = "ZeroDivisionError"
    /\ \A i \in Sends("Daily Trading Summary") :
          calls[i].data.content.summary.pnl_percentage.den # 0

C6_Witness ==
    /\ Done("send_daily_summary")
    /\ SummaryAccountFetched
    /\ account.last_equity = 0
    /\ daily_trades # <<>>

(***************************************************************************)
(* C7. With last_equity # 0 the summary sent has pnl = equity -            *)
(* last_equity, pnl_percentage = pnl / last_equity * 100, balance = equity *)
(* and total_trades = Len(daily_trades); equity 10500, last_equity 10000   *)
(* and one BUY of 10 at 50 give pnl 500, pnl_percentage 5, total_trades 1. *)
(***************************************************************************)
C7_SummaryFigures ==
    \A i \in Sends("Daily Trading Summary") :
        LET sm == calls[i].data.content.summary
        IN  /\ account.last_equity # 0
            /\ sm.pnl = account.equity - account.last_equity
            /\ sm.pnl_percentage.den > 0
            /\ sm.pnl_percentage.num * account.last_equity
                  = sm.pnl * 100 * sm.pnl_percentage.den
            /\ sm.balance = account.equity
            /\ sm.total_trades = Len(daily_trades)
            /\ (/\ account = [equity |-> 10500, last_equity |-> 10000]
                /\ Len(daily_trades) = 1
                /\ daily_trades[1].action = "BUY"
                /\ daily_trades[1].price = 50
                /\ daily_trades[1].quantity = 10) =>
                  /\ sm.pnl = 500
                  /\ sm.pnl_percentage = [num |-> 5, den |-> 1]
                  /\ sm.total_trades = 1
                  /\ daily_trades[1].total = 500

C7_Witness ==
    /\ Done("send_daily_summary")
    /\ Delivered("Daily Trading Summary") # {}
    /\ account = [equity |-> 10500, last_equity |-> 10000]
    /\ Len(daily_trades) = 1
    /\ daily_trades[1].action = "BUY"
    /\ daily_trades[1].price = 50
    /\ daily_trades[1].quantity = 10

(***************************************************************************)
(* C8. The win rate sent is 100 * (trades that are BUY below the current   *)
(* equity or SELL above it) / (number of trades), and 0 for an empty       *)
(* daily_trades; it lies between 0 and 100.                                *)
(***************************************************************************)
Winners ==
    {k \in 1..Len(daily_trades) :
        \/ daily_trades[k].action = "BUY" /\ daily_trades[k].price < account.equity
        \/ daily_trades[k].action = "SELL" /\ daily_trades[k].price > account.equity}

C8_WinRate ==
    \A i \in Sends("Daily Trading Summary") :
        LET w == calls[i].data.content.summary.win_rate
            n == Len(daily_trades)
        IN  /\ w.den > 0
            /\ n = 0 => w = [num |-> 0, den |-> 1]
            /\ w.num * n = 100 * Cardinality(Winners) * w.den
            /\ 0 <= w.num
            /\ w.num <= 100 * w.den

C8_Witness ==
    /\ Sends("Daily Trading Summary") # {}
    /\ Len(daily_trades) = 2
    /\ Cardinality(Winners) = 1

C8_WitnessEmpty ==
    /\ Sends("Daily Trading Summary") # {}
    /\ daily_trades = <<>>

(***************************************************************************)
(* C9 as stated. When the market is open and no external call fails, run   *)
(* makes exactly the calls get_clock, get_account, session-start message,  *)
(* get_account, daily-summary message, in that order, and then returns     *)
(* without any error alert.                                                *)
(***************************************************************************)
StepOf(c) == IF c.call = "webhook.send" THEN c.data.content.title ELSE c.call

RunSteps == [i \in 1..Len(calls) |-> StepOf(calls[i])]

OpenRunSteps ==
    <<"get_clock", "get_account", "Trading session started", "get_account",
      "Daily Trading Summary">>

OpenRunPositions ==
    <<"run_account", "run_session", "ds_account", "ds_send", "idle">>

C9_OpenRunIsLinear ==
    (Done("run") /\ variant = "notifier" /\ ClockSaid(TRUE) /\ AllCallsOk) =>
        /\ RunSteps = OpenRunSteps
        /\ outcome.status = "returned"
        /\ Sends("Error Alert") = {}

(***************************************************************************)
(* C9 amended. When the market is open, no external call fails and the     *)
(* account fetched for the summary has last_equity # 0, run makes exactly  *)
(* the calls get_clock, get_account, session-start message, get_account,   *)
(* daily-summary message, one after the other in that order, and then      *)
(* returns without any error alert.                                        *)
(***************************************************************************)
C9_OpenRunIsLinearUnlessZeroLastEquity ==
    (/\ variant = "notifier"
     /\ ClockSaid(TRUE)
     /\ AllCallsOk
     /\ ~(SummaryAccountFetched /\ account.last_equity = 0)) =>
        /\ Len(calls) <= Len(OpenRunSteps)
        /\ RunSteps = SubSeq(OpenRunSteps, 1, Len(calls))
        /\ pc = OpenRunPositions[Len(calls)]
        /\ exc = ""
        /\ pc = "idle" => outcome.status = "returned"

C9_Witness ==
    /\ Done("run")
    /\ variant = "notifier"
    /\ ClockSaid(TRUE)
    /\ AllCallsOk
    /\ RunSteps = OpenRunSteps
    /\ daily_trades # <<>>

(***************************************************************************)
(* C10. daily_trades is append-only: the only step that changes it is the  *)
(* successful end of execute_trade, which appends the one new record;      *)
(* every other step of every operation leaves it as it is.                 *)
(***************************************************************************)
C10_AppendOnly ==
    [][ /\ \/ daily_trades' = daily_trades
           \/ /\ op = "execute_trade"
              /\ outcome'.status = "returned"
              /\ daily_trades' = Append(daily_trades, RecordOf(args))
        /\ (op' = "execute_trade" /\ pc # "idle" /\ outcome'.status = "returned")
              => daily_trades' = Append(daily_trades, RecordOf(args))
        /\ (pc' = "idle" /\ ~(op' = "execute_trade" /\ outcome'.status = "returned"))
              => daily_trades' = trades0' ]_vars

C10_Witness ==
    /\ Done("run")
    /\ variant = "notifier"
    /\ Delivered("Daily Trading Summary") # {}
    /\ Len(daily_trades) = 2
    /\ daily_trades = trades0

====
